---- MODULE Spec2Model ----
(***************************************************************************)
(* Model of callback_group.py: the webhook handler msg_cb that classifies  *)
(* a chat message, derives the per-room / per-hour CSV file and appends a  *)
(* row to it through FileManager.write_to_csv.                             *)
(*                                                                         *)
(* Python strings that end up in CSV rows are modelled as sequences of     *)
(* tokens (a tag, a run of text, a digit), so that str(), the XML parser   *)
(* and the row builder are computed and not assumed.  Paths are TLA+       *)
(* strings built by concatenation as the f-strings build them.             *)
(* The two literal fallback titles of parse_xml_content are not ASCII in   *)
(* the source; they are written here as NO_TITLE and XML_PARSE_ERROR.      *)
(***************************************************************************)
EXTENDS Integers, Sequences, FiniteSets, Bags, TLC

VARIABLES
  config,        \* the module-level Config object (read once at import)
  now,           \* the wall clock read by datetime.now()
  ticks,         \* how many times the clock advanced
  dirs,          \* directories that exist
  files,         \* file path -> sequence of rows (existing files only)
  pc,            \* per handler: position in msg_cb / save_message_to_csv
  message,       \* per handler: the Msg being handled
  room_name,     \* per handler: local of save_message_to_csv
  current_time,  \* per handler: local of save_message_to_csv
  file_name,     \* per handler: local of save_message_to_csv
  header,        \* per handler: local of save_message_to_csv
  data,          \* per handler: local of save_message_to_csv
  pos,           \* per handler: stream position of the open file object
  buf,           \* per handler: rows written to the file object, not yet flushed
  resp,          \* per handler: the HTTP response of msg_cb
  exc,           \* per handler: the exception raised while handling (observer)
  parse_calls,   \* per handler: invocations of parse_xml_content for this message
  shared,        \* per handler: another handler had the same file open meanwhile (observer)
  handled,       \* number of requests received so far
  faults,        \* number of storage errors raised so far
  history,       \* rows flushed by successful closes, in order (observer)
  xml_in,        \* input of parse_xml_content  (pure-function specification)
  xml_out        \* its result                  (pure-function specification)

vars == <<config, now, ticks, dirs, files, pc, message, room_name, current_time,
          file_name, header, data, pos, buf, resp, exc, parse_calls, shared, handled,
          faults, history, xml_in, xml_out>>

\* ------------------------------------------------------------------ bounds
NumHandlers == 2
MaxMsgs == 2
MaxTicks == 2
MaxFaults == 1
MaxXmlLen == 4

Handlers == 1..NumHandlers

\* ------------------------------------------------------- Python values
\* None, distinct from every string (no token of the alphabets below)
None == <<"<None>">>
\* the literal of line 71 and the literal of line 73
NO_TITLE == <<"<NO_TITLE>">>
XML_PARSE_ERROR == <<"<XML_PARSE_ERROR>">>
EmptyStr == <<>>
\* no result yet
Unset == <<"<unset>">>

\* Python truthiness of an optional string: None and "" are falsy
Truthy(v) == v # None /\ v # EmptyStr

Digit(d) ==
  CASE d = 0 -> "0" [] d = 1 -> "1" [] d = 2 -> "2" [] d = 3 -> "3"
    [] d = 4 -> "4" [] d = 5 -> "5" [] d = 6 -> "6" [] d = 7 -> "7"
    [] d = 8 -> "8" [] d = 9 -> "9"

\* str(n) for n >= 0, as a TLA+ string
RECURSIVE IntToStr(_)
IntToStr(n) == IF n < 10 THEN Digit(n) ELSE IntToStr(n \div 10) \o Digit(n % 10)

\* str(n) as a token sequence, one digit per token
RECURSIVE Str(_)
Str(n) == IF n < 10 THEN <<Digit(n)>> ELSE Append(Str(n \div 10), Digit(n % 10))

\* zero-padded decimal of strftime fields (%m, %d, %H: width 2; %Y: width 4)
RECURSIVE Pad(_, _)
Pad(n, width) ==
  IF width <= 1 THEN IntToStr(n)
  ELSE IF n < 10 THEN "0" \o Pad(n, width - 1)
  ELSE Pad(n \div 10, width - 1) \o Digit(n % 10)

\* --------------------------------------------- xml.etree.ElementTree
\* The markup alphabet: start tags, end tags, an empty-element tag and a run
\* of character data.
XmlTokens == {"<msg>", "</msg>", "<title>", "</title>", "<title/>", "Hello"}

IsStartTag(t) == t \in {"<msg>", "<title>"}
IsEndTag(t) == t \in {"</msg>", "</title>"}
IsEmptyTag(t) == t \in {"<title/>"}
IsText(t) == ~IsStartTag(t) /\ ~IsEndTag(t) /\ ~IsEmptyTag(t)
TagOf(t) ==
  CASE t \in {"<msg>", "</msg>"} -> "msg"
    [] t \in {"<title>", "</title>", "<title/>"} -> "title"
    [] OTHER -> ""

\* ET.fromstring accepts exactly one root element, properly nested tags and no
\* character data outside the root; anything else raises ParseError.
\* open is the stack of open tags, closed says the root element has ended.
RECURSIVE WellFormedFrom(_, _, _, _)
WellFormedFrom(toks, i, open, closed) ==
  IF i > Len(toks) THEN open = <<>> /\ closed
  ELSE LET t == toks[i] IN
    IF IsText(t) THEN open # <<>> /\ WellFormedFrom(toks, i + 1, open, closed)
    ELSE IF IsStartTag(t)
      THEN ~(open = <<>> /\ closed)
           /\ WellFormedFrom(toks, i + 1, <<TagOf(t)>> \o open, closed)
    ELSE IF IsEmptyTag(t)
      THEN ~(open = <<>> /\ closed)
           /\ WellFormedFrom(toks, i + 1, open, closed \/ open = <<>>)
    ELSE /\ open # <<>>
         /\ Head(open) = TagOf(t)
         /\ WellFormedFrom(toks, i + 1, Tail(open), closed \/ Len(open) = 1)

WellFormed(toks) == WellFormedFrom(toks, 1, <<>>, FALSE)

\* root.find('.//title'): the first element below the root (the root itself is
\* not matched) with tag title, in document order; 0 when there is none.
\* In a well-formed document token 1 opens the root.
TitleElements(toks) ==
  {i \in 2..Len(toks) :
     (IsStartTag(toks[i]) \/ IsEmptyTag(toks[i])) /\ TagOf(toks[i]) = "title"}

FindTitle(toks) ==
  IF TitleElements(toks) = {} THEN 0
  ELSE CHOOSE i \in TitleElements(toks) : \A j \in TitleElements(toks) : i <= j

\* the character data between an element's start tag and its first child or
\* its end tag
RECURSIVE TextRun(_, _)
TextRun(toks, i) ==
  IF i <= Len(toks) /\ IsText(toks[i]) THEN <<toks[i]>> \o TextRun(toks, i + 1)
  ELSE <<>>

\* Element.text: None when the element holds no character data before its
\* first child (ElementTree never yields "" here)
ElementText(toks, i) ==
  IF IsEmptyTag(toks[i]) \/ TextRun(toks, i + 1) = <<>> THEN None
  ELSE TextRun(toks, i + 1)

\* lines 67-73
parse_xml_content(content) ==
  IF ~WellFormed(content) THEN XML_PARSE_ERROR
  ELSE IF FindTitle(content) # 0 THEN ElementText(content, FindTitle(content))
  ELSE NO_TITLE

\* ------------------------------------------------------------ Config
\* config.json as loaded by Config.__init__: the defaults of lines 36-41, two
\* accepted type codes and two rooms.  log_level and file_write_mode are the
\* options the handler's control flow reads; each is varied from its default.
DefaultConfig ==
  [accepted_types |-> {1, 49},
   chatroom_id_to_name |-> [r \in {"r1", "r2"} |-> IF r = "r1" THEN "Team A" ELSE "B"],
   log_level |-> "INFO",
   file_write_mode |-> "a"]

Configs ==
  {DefaultConfig}
    \cup {[DefaultConfig EXCEPT !.file_write_mode = m] : m \in {"w", "x"}}
    \cup {[DefaultConfig EXCEPT !.log_level = l] : l \in {"debug", "VERBOSE"}}

\* str.upper() on the configured level names
Upper(s) == CASE s = "debug" -> "DEBUG" [] s = "info" -> "INFO" [] OTHER -> s

\* the integer level constants of the logging module
LoggingLevelNames ==
  {"CRITICAL", "FATAL", "ERROR", "WARNING", "WARN", "INFO", "DEBUG", "NOTSET"}

\* lines 121-127: getattr(logging, config.log_level.upper()) raises
\* AttributeError when the module has no such attribute
log_and_print_raises(cfg) == Upper(cfg.log_level) \notin LoggingLevelNames

\* ---------------------------------------------------------- messages
\* the fields of Msg that save_message_to_csv reads
Contents ==
  {<<"<msg>", "<title>", "Hello", "</title>", "</msg>">>,
   <<"<msg>", "<title>", "</title>", "</msg>">>,
   <<"Hello">>}

Msg(t, g, r, c) ==
  [type |-> t, sender |-> <<"wxid_s">>, roomid |-> r, content |-> c,
   extra |-> <<"e">>, is_group |-> g]

\* The requests the model receives: every way of being ineligible, both
\* four-column kinds (not type 49; type 49 outside a group) and the type-49
\* group message with each content, in room r1; r2 and the unmapped r9 receive
\* one message of each column count.
Messages ==
  {Msg(1, g, "r1", <<"Hello">>) : g \in BOOLEAN}
    \cup {Msg(49, g, "r1", c) : g \in BOOLEAN, c \in Contents}
    \cup {Msg(3, TRUE, "r1", <<"Hello">>)}
    \cup {Msg(t, TRUE, r, <<"<msg>", "<title>", "Hello", "</title>", "</msg>">>) :
            t \in {1, 3, 49}, r \in {"r2", "r9"}}

NoMessage ==
  [type |-> 0, sender |-> EmptyStr, roomid |-> "", content |-> EmptyStr,
   extra |-> EmptyStr, is_group |-> FALSE]

\* line 78 with `and` in place of `or`
Eligible_and(m, cfg) ==
  ~(m.type \notin cfg.accepted_types
      /\ m.roomid \notin DOMAIN cfg.chatroom_id_to_name)

\* line 78
Eligible(m, cfg) ==
  ~(m.type \notin cfg.accepted_types
      \/ m.roomid \notin DOMAIN cfg.chatroom_id_to_name)

\* lines 91 and 97 without the is_group test
IsAppGroup_type_only(m) == m.type = 49

\* lines 91 and 97: the condition selecting the five-column header
IsAppGroup(m) == m.type = 49 /\ m.is_group

\* ------------------------------------------------------------- clock
StartTime == [year |-> 2024, month |-> 12, day |-> 31, hour |-> 22]
NoTime == [year |-> 0, month |-> 0, day |-> 0, hour |-> 0]

IsLeap(y) == (y % 4 = 0 /\ y % 100 # 0) \/ y % 400 = 0
DaysInMonth(y, m) ==
  IF m = 2 THEN (IF IsLeap(y) THEN 29 ELSE 28)
  ELSE IF m \in {4, 6, 9, 11} THEN 30 ELSE 31

\* the wall clock one hour later
NextHour(t) ==
  IF t.hour < 23 THEN [t EXCEPT !.hour = t.hour + 1]
  ELSE IF t.day < DaysInMonth(t.year, t.month)
    THEN [t EXCEPT !.hour = 0, !.day = t.day + 1]
  ELSE IF t.month < 12 THEN [t EXCEPT !.hour = 0, !.day = 1, !.month = t.month + 1]
  ELSE [year |-> t.year + 1, month |-> 1, day |-> 1, hour |-> 0]

\* strftime('%Y%m%d') and strftime('%Y%m%d%H')
strftime_Ymd(t) == Pad(t.year, 4) \o Pad(t.month, 2) \o Pad(t.day, 2)
strftime_YmdH(t) == strftime_Ymd(t) \o Pad(t.hour, 2)

\* line 83 without the room component: one folder per day for every room
folder_path_no_room(room, t) == <<".", strftime_Ymd(t)>>

\* ------------------------------------------------------------- paths
\* A path is the sequence of its components; PathStr renders it as the
\* f-strings of lines 83 and 88 do.
\* line 83
folder_path(room, t) == <<".", room, strftime_Ymd(t)>>
\* line 88 reading the clock again for the file name
FileNameOf_resample(room, t) ==
  Append(folder_path(room, t), "messages_" \o strftime_YmdH(now) \o ".csv")

\* line 88
FileNameOf(room, t) ==
  Append(folder_path(room, t), "messages_" \o strftime_YmdH(t) \o ".csv")

DirStr(p) == p[1] \o "/" \o p[2] \o "/" \o p[3] \o "/"
PathStr(p) == DirStr(p) \o p[4]
ParentDir(f) == SubSeq(f, 1, Len(f) - 1)

\* os.makedirs: the directory and every missing ancestor
MakeDirs(p) == {SubSeq(p, 1, k) : k \in 1..Len(p)}

\* ------------------------------------------------------------ rows
\* lines 90-95
HeaderOf(m) ==
  IF ~IsAppGroup(m) THEN <<<<"type">>, <<"sender">>, <<"content">>, <<"extra">>>>
  ELSE <<<<"type">>, <<"sender">>, <<"title">>, <<"content">>, <<"extra">>>>

\* lines 96-97
TitleContentOf(m) == IF IsAppGroup(m) THEN parse_xml_content(m.content) ELSE EmptyStr

\* lines 98-100
DataOf(m) ==
  <<Str(m.type), m.sender,
    IF Truthy(TitleContentOf(m)) THEN TitleContentOf(m) ELSE m.content,
    m.extra>>

\* -------------------------------------------------------- responses
\* line 118: the fixed acknowledgement; line 117: HTTPException(500, str(e))
Ack == [code |-> 200, detail |-> "ack"]
ServerError(detail) == [code |-> 500, detail |-> detail]
NoResponse == [code |-> 0, detail |-> ""]

\* lines 105-110 with msg_cb's try/except (lines 114-117) missing: an exception
\* of log_and_print leaves msg_cb and no response is built
ResponseAfterException_unhandled(cfg) ==
  IF log_and_print_raises(cfg) THEN NoResponse ELSE Ack

\* lines 105-110 and 114-118: what msg_cb answers once an exception reached the
\* except clauses of save_message_to_csv.  Each clause only calls log_and_print;
\* when that returns, save_message_to_csv returns normally and msg_cb
\* acknowledges; when it raises, msg_cb turns that exception into a 500.
ResponseAfterException(cfg) ==
  IF log_and_print_raises(cfg) THEN ServerError("AttributeError") ELSE Ack

\* lines 103, 109-110 and 114-118: what msg_cb answers after the row was written.
\* An exception of log_and_print in line 103 is caught in line 109, whose own
\* log_and_print raises again.
ResponseAfterSave(cfg) ==
  IF log_and_print_raises(cfg) THEN ServerError("AttributeError") ELSE Ack

\* ------------------------------------------------------- file objects
\* a flush that writes at the stream position also in append mode
Flush_at_position(content, mode, p, rows) ==
  SubSeq(content, 1, p) \o rows \o SubSeq(content, p + Len(rows) + 1, Len(content))

\* the rows of a file after a file object opened in `mode` at position p
\* flushes `rows`: O_APPEND writes at the end whatever p is, the other modes
\* write at p over what is there
Flush(content, mode, p, rows) ==
  IF mode = "a" THEN content \o rows
  ELSE SubSeq(content, 1, p) \o rows
         \o SubSeq(content, p + Len(rows) + 1, Len(content))

\* ------------------------------------------------------------- state
TypeOK ==
  /\ config \in Configs
  /\ ticks \in 0..MaxTicks
  /\ handled \in 0..MaxMsgs
  /\ faults \in 0..MaxFaults
  /\ \A h \in Handlers :
       pc[h] \in {"idle", "resolve", "open", "write", "close", "saved", "done"}

Init ==
  /\ config \in Configs
  /\ now = StartTime
  /\ ticks = 0
  /\ dirs = {}
  /\ files = <<>>
  /\ pc = [h \in Handlers |-> "idle"]
  /\ message = [h \in Handlers |-> NoMessage]
  /\ room_name = [h \in Handlers |-> ""]
  /\ current_time = [h \in Handlers |-> NoTime]
  /\ file_name = [h \in Handlers |-> <<>>]
  /\ header = [h \in Handlers |-> <<>>]
  /\ data = [h \in Handlers |-> <<>>]
  /\ pos = [h \in Handlers |-> 0]
  /\ buf = [h \in Handlers |-> <<>>]
  /\ resp = [h \in Handlers |-> NoResponse]
  /\ exc = [h \in Handlers |-> ""]
  /\ parse_calls = [h \in Handlers |-> 0]
  /\ shared = [h \in Handlers |-> FALSE]
  /\ handled = 0
  /\ faults = 0
  /\ history = <<>>
  /\ xml_in = <<>>
  /\ xml_out = Unset

\* The handlers are coroutines of one event loop: between two awaits a handler
\* runs alone.  Lines 78-100 hold no suspending await, so while a handler is
\* at one of these positions no other handler takes a step.
SyncPcs == {"resolve"}
MayRun(h) == \A g \in Handlers \ {h} : pc[g] \notin SyncPcs

\* the clock advances at any moment, also inside a handler's synchronous part
Tick ==
  /\ ticks < MaxTicks
  /\ ticks' = ticks + 1
  /\ now' = NextHour(now)
  /\ UNCHANGED <<config, dirs, files, pc, message, room_name, current_time,
                 file_name, header, data, pos, buf, resp, exc, parse_calls,
                 handled, faults, history, shared, xml_in, xml_out>>

\* lines 113-115 and 76-82: a request arrives; an ineligible message returns at
\* line 79 and is acknowledged at line 118
Start(h, m) ==
  /\ pc[h] = "idle"
  /\ \A g \in Handlers : g < h => pc[g] # "idle"
  /\ MayRun(h)
  /\ handled < MaxMsgs
  /\ handled' = handled + 1
  /\ message' = [message EXCEPT ![h] = m]
  /\ IF ~Eligible(m, config)
       THEN /\ pc' = [pc EXCEPT ![h] = "done"]
            /\ resp' = [resp EXCEPT ![h] = Ack]
            /\ UNCHANGED <<room_name, current_time>>
       ELSE /\ pc' = [pc EXCEPT ![h] = "resolve"]
            /\ room_name' = [room_name EXCEPT ![h] = config.chatroom_id_to_name[m.roomid]]
            /\ current_time' = [current_time EXCEPT ![h] = now]
            /\ UNCHANGED resp
  /\ UNCHANGED <<config, now, ticks, dirs, files, file_name, header, data, pos,
                 buf, exc, parse_calls, faults, history, shared, xml_in, xml_out>>

\* line 85 dropped: os.makedirs is always called
NeedsMakedirs_always(p, ds) == TRUE

\* line 85: the guard of os.makedirs
NeedsMakedirs(p, ds) == p \notin ds

\* lines 83-100.  os.makedirs (without exist_ok) raises FileExistsError on an
\* existing directory and OSError when the storage refuses; after it the file
\* name, the header and the row are computed (parse_xml_content is awaited
\* but never suspends).
Resolve(h) ==
  /\ pc[h] = "resolve"
  /\ LET p == folder_path(room_name[h], current_time[h])
         built ==
           /\ file_name' = [file_name EXCEPT ![h] =
                              FileNameOf(room_name[h], current_time[h])]
           /\ header' = [header EXCEPT ![h] = HeaderOf(message[h])]
           /\ parse_calls' = [parse_calls EXCEPT ![h] =
                                IF IsAppGroup(message[h]) THEN 1 ELSE 0]
           /\ data' = [data EXCEPT ![h] = DataOf(message[h])]
           /\ pc' = [pc EXCEPT ![h] = "open"]
           /\ UNCHANGED <<exc, resp, faults>>
         failed(e) ==
           /\ exc' = [exc EXCEPT ![h] = e]
           /\ resp' = [resp EXCEPT ![h] = ResponseAfterException(config)]
           /\ pc' = [pc EXCEPT ![h] = "done"]
           /\ UNCHANGED <<file_name, header, parse_calls, data>> IN
       IF ~NeedsMakedirs(p, dirs) THEN built /\ UNCHANGED dirs
       ELSE IF p \in dirs THEN failed("FileExistsError") /\ UNCHANGED <<dirs, faults>>
       ELSE \/ dirs' = dirs \cup MakeDirs(p) /\ built
            \/ /\ faults < MaxFaults
               /\ faults' = faults + 1
               /\ failed("OSError")
               /\ UNCHANGED dirs
  /\ UNCHANGED <<config, now, ticks, files, message, room_name, current_time,
                 pos, buf, handled, history, shared, xml_in, xml_out>>

\* the exception aiofiles.open raises for the mode, "" when it opens
OpenError(f, mode, ds, fs) ==
  IF ParentDir(f) \notin ds THEN "FileNotFoundError"
  ELSE IF mode = "x" /\ f \in DOMAIN fs THEN "FileExistsError"
  ELSE ""

\* an open that truncates in every mode
OpenedContent_truncate(f, mode, fs) == <<>>

\* the rows of the file right after open(): "w" truncates, "a" and "x" create
\* an empty file when there is none
OpenedContent(f, mode, fs) ==
  IF mode = "w" \/ f \notin DOMAIN fs THEN <<>> ELSE fs[f]

\* the handlers that hold an open file object on f
HasOpen(f) == {g \in Handlers : pc[g] \in {"write", "close"} /\ file_name[g] = f}

\* lines 50-51: aiofiles.open(file_name, config.file_write_mode).  In append
\* mode the stream is positioned at the end of the file, otherwise at 0.
Open(h) ==
  /\ pc[h] = "open"
  /\ MayRun(h)
  /\ LET f == file_name[h]
         mode == config.file_write_mode
         err == OpenError(f, mode, dirs, files) IN
       \/ /\ err = ""
          /\ files' = [g \in DOMAIN files \cup {f} |->
                         IF g = f THEN OpenedContent(f, mode, files) ELSE files[g]]
          /\ pos' = [pos EXCEPT ![h] =
                       IF mode = "a" THEN Len(OpenedContent(f, mode, files)) ELSE 0]
          /\ buf' = [buf EXCEPT ![h] = <<>>]
          /\ shared' = [g \in Handlers |->
                          IF g = h THEN HasOpen(f) # {}
                          ELSE shared[g] \/ g \in HasOpen(f)]
          /\ pc' = [pc EXCEPT ![h] = "write"]
          /\ UNCHANGED <<exc, resp, faults>>
       \/ /\ err # ""
          /\ exc' = [exc EXCEPT ![h] = err]
          /\ resp' = [resp EXCEPT ![h] = ResponseAfterException(config)]
          /\ pc' = [pc EXCEPT ![h] = "done"]
          /\ UNCHANGED <<files, pos, buf, faults, shared>>
       \/ /\ err = ""
          /\ faults < MaxFaults
          /\ faults' = faults + 1
          /\ exc' = [exc EXCEPT ![h] = "OSError"]
          /\ resp' = [resp EXCEPT ![h] = ResponseAfterException(config)]
          /\ pc' = [pc EXCEPT ![h] = "done"]
          /\ UNCHANGED <<files, pos, buf, shared>>
  /\ UNCHANGED <<config, now, ticks, dirs, message, room_name, current_time,
                 file_name, header, data, parse_calls, handled, history,
                 xml_in, xml_out>>

\* line 53: the header is due when the stream position is 0
HeaderDue(p) == p = 0

\* lines 53-55: tell(), the header row when it is due and the data row; the
\* rows go to the file object's buffer, which no other handler sees
WriteRows(h) ==
  /\ pc[h] = "write"
  /\ MayRun(h)
  /\ buf' = [buf EXCEPT ![h] =
               (IF HeaderDue(pos[h]) THEN <<header[h]>> ELSE <<>>) \o <<data[h]>>]
  /\ pc' = [pc EXCEPT ![h] = "close"]
  /\ UNCHANGED <<config, now, ticks, dirs, files, message, room_name,
                 current_time, file_name, header, data, pos, resp, exc,
                 parse_calls, handled, faults, history, shared, xml_in, xml_out>>

\* line 50, leaving the async with: close() flushes the buffered rows in one
\* write, or the write fails (OSError) and nothing reaches the file; either
\* way the file object and its buffer are gone
Close(h) ==
  /\ pc[h] = "close"
  /\ MayRun(h)
  /\ buf' = [buf EXCEPT ![h] = <<>>]
  /\ \/ /\ files' = [files EXCEPT ![file_name[h]] =
                       Flush(@, config.file_write_mode, pos[h], buf[h])]
        /\ history' = Append(history,
                            [file |-> file_name[h], rows |-> buf[h],
                             data |-> data[h], msg |-> message[h],
                             room |-> room_name[h], time |-> current_time[h],
                             parsed |-> parse_calls[h]])
        /\ pc' = [pc EXCEPT ![h] = "saved"]
        /\ UNCHANGED <<exc, resp, faults>>
     \/ /\ faults < MaxFaults
        /\ faults' = faults + 1
        /\ exc' = [exc EXCEPT ![h] = "OSError"]
        /\ resp' = [resp EXCEPT ![h] = ResponseAfterException(config)]
        /\ pc' = [pc EXCEPT ![h] = "done"]
        /\ UNCHANGED <<files, history>>
  /\ UNCHANGED <<config, now, ticks, dirs, message, room_name, current_time,
                 file_name, header, data, pos, parse_calls, handled,
                 shared, xml_in, xml_out>>

\* lines 103 and 118 reached without awaiting the close of the file object
Finish_early(h) ==
  /\ pc[h] \in {"close", "saved"}
  /\ MayRun(h)
  /\ resp' = [resp EXCEPT ![h] = ResponseAfterSave(config)]
  /\ pc' = [pc EXCEPT ![h] = "done"]
  /\ UNCHANGED <<config, now, ticks, dirs, files, message, room_name,
                 current_time, file_name, header, data, pos, buf, exc,
                 parse_calls, handled, faults, history, shared, xml_in, xml_out>>

\* lines 103 and 118: the write returned; log, then answer
Finish(h) ==
  /\ pc[h] = "saved"
  /\ MayRun(h)
  /\ resp' = [resp EXCEPT ![h] = ResponseAfterSave(config)]
  /\ pc' = [pc EXCEPT ![h] = "done"]
  /\ UNCHANGED <<config, now, ticks, dirs, files, message, room_name,
                 current_time, file_name, header, data, pos, buf, exc,
                 parse_calls, handled, faults, history, shared, xml_in, xml_out>>

\* the response has been sent; the coroutine and its locals are gone
Return(h) ==
  /\ pc[h] = "done"
  /\ MayRun(h)
  /\ pc' = [pc EXCEPT ![h] = "idle"]
  /\ message' = [message EXCEPT ![h] = NoMessage]
  /\ room_name' = [room_name EXCEPT ![h] = ""]
  /\ current_time' = [current_time EXCEPT ![h] = NoTime]
  /\ file_name' = [file_name EXCEPT ![h] = <<>>]
  /\ header' = [header EXCEPT ![h] = <<>>]
  /\ data' = [data EXCEPT ![h] = <<>>]
  /\ pos' = [pos EXCEPT ![h] = 0]
  /\ buf' = [buf EXCEPT ![h] = <<>>]
  /\ resp' = [resp EXCEPT ![h] = NoResponse]
  /\ exc' = [exc EXCEPT ![h] = ""]
  /\ parse_calls' = [parse_calls EXCEPT ![h] = 0]
  /\ shared' = [shared EXCEPT ![h] = FALSE]
  /\ UNCHANGED <<config, now, ticks, dirs, files, handled, faults, history,
                 xml_in, xml_out>>

Next ==
  \/ Tick
  \/ \E h \in Handlers : \E m \in Messages : Start(h, m)
  \/ \E h \in Handlers : Resolve(h)
  \/ \E h \in Handlers : Open(h)
  \/ \E h \in Handlers : WriteRows(h)
  \/ \E h \in Handlers : Close(h)
  \/ \E h \in Handlers : Finish(h)
  \/ \E h \in Handlers : Return(h)

Spec == Init /\ [][Next]_vars

\* ------------------------------------------- parse_xml_content alone
\* every content of at most MaxXmlLen tokens
RECURSIVE TokenSeqs(_)
TokenSeqs(n) ==
  IF n = 0 THEN {<<>>}
  ELSE TokenSeqs(n - 1) \cup {Append(c, t) : c \in TokenSeqs(n - 1), t \in XmlTokens}

InitXml ==
  /\ config = DefaultConfig
  /\ now = StartTime
  /\ ticks = 0
  /\ dirs = {}
  /\ files = <<>>
  /\ pc = [h \in Handlers |-> "idle"]
  /\ message = [h \in Handlers |-> NoMessage]
  /\ room_name = [h \in Handlers |-> ""]
  /\ current_time = [h \in Handlers |-> NoTime]
  /\ file_name = [h \in Handlers |-> <<>>]
  /\ header = [h \in Handlers |-> <<>>]
  /\ data = [h \in Handlers |-> <<>>]
  /\ pos = [h \in Handlers |-> 0]
  /\ buf = [h \in Handlers |-> <<>>]
  /\ resp = [h \in Handlers |-> NoResponse]
  /\ exc = [h \in Handlers |-> ""]
  /\ parse_calls = [h \in Handlers |-> 0]
  /\ shared = [h \in Handlers |-> FALSE]
  /\ handled = 0
  /\ faults = 0
  /\ history = <<>>
  /\ xml_in \in TokenSeqs(MaxXmlLen)
  /\ xml_out = Unset

\* lines 67-73 applied to the input
ParseXml ==
  /\ xml_out = Unset
  /\ xml_out' = parse_xml_content(xml_in)
  /\ UNCHANGED <<config, now, ticks, dirs, files, pc, message, room_name,
                 current_time, file_name, header, data, pos, buf, resp, exc,
                 parse_calls, shared, handled, faults, history, xml_in>>

NextXml == ParseXml

SpecXml == InitXml /\ [][NextXml]_vars

\* ============================================================ claims
\* the condition of being ineligible, in the words of the classifier's contract
Ineligible(m) ==
  m.type \notin config.accepted_types
    \/ m.roomid \notin DOMAIN config.chatroom_id_to_name

InFlight(h) == pc[h] # "idle"

\* C1: a message whose type is not accepted or whose room is not mapped is
\* skipped: every step of its handler leaves the directories and the files as
\* they are, takes the handler straight to its response, and the response is
\* the acknowledgement.
C1_IneligibleSkipped ==
  [][\A h \in Handlers :
       /\ pc[h] = "idle" /\ pc'[h] # "idle" /\ Ineligible(message'[h])
            => /\ dirs' = dirs /\ files' = files /\ history' = history
               /\ pc'[h] = "done" /\ resp'[h] = Ack /\ exc'[h] = ""
       /\ pc[h] # "idle" /\ pc'[h] # pc[h] /\ Ineligible(message[h])
            => /\ dirs' = dirs /\ files' = files /\ history' = history
               /\ pc[h] = "done" /\ pc'[h] = "idle"]_vars

\* C1 witness: while a file exists, a message of an unaccepted type in a
\* mapped room has been acknowledged
C1_Witness ==
  /\ DOMAIN files # {}
  /\ \E h \in Handlers :
       /\ pc[h] = "done" /\ resp[h] = Ack
       /\ message[h].type \notin config.accepted_types
       /\ message[h].roomid \in DOMAIN config.chatroom_id_to_name

\* the appends that completed: one history entry per flushed row
Appends == {history[i] : i \in DOMAIN history}

\* C2: the data row written for a type-49 group message has the five fields
\* type, sender, title, content, extra, the third being the extracted title
\* when that is non-empty and the raw content otherwise.
C2_FiveFieldRow ==
  \A a \in Appends :
    (a.msg.type = 49 /\ a.msg.is_group)
      => /\ Len(a.data) = 5
         /\ a.data[1] = Str(a.msg.type)
         /\ a.data[2] = a.msg.sender
         /\ a.data[3] = (IF Truthy(parse_xml_content(a.msg.content))
                           THEN parse_xml_content(a.msg.content)
                           ELSE a.msg.content)
         /\ a.data[4] = a.msg.content
         /\ a.data[5] = a.msg.extra

\* C3: the data row written for a message that is not of type 49 or not from
\* a group is exactly type, sender, raw content, extra, and parse_xml_content
\* was not invoked for it.
C3_FourFieldRow ==
  /\ \A a \in Appends :
       (a.msg.type # 49 \/ ~a.msg.is_group)
         => /\ a.data = <<Str(a.msg.type), a.msg.sender, a.msg.content, a.msg.extra>>
            /\ Len(a.data) = 4
            /\ a.rows[Len(a.rows)] = a.data
            /\ a.parsed = 0
  /\ \A h \in Handlers :
       (InFlight(h) /\ (message[h].type # 49 \/ ~message[h].is_group))
         => parse_calls[h] = 0

\* C3 witness: the rows of a type-49 message outside a group and of a group
\* message of another type have been written
C3_Witness ==
  /\ \E a \in Appends : a.msg.type = 49 /\ ~a.msg.is_group
  /\ \E a \in Appends : a.msg.type # 49 /\ a.msg.is_group

\* C4: parse_xml_content yields the title text when the first title element
\* has text, NO_TITLE when that element has none or when there is no title
\* element, XML_PARSE_ERROR when the content is not well-formed, and so
\* always a non-empty string.  (The title element is the one the path
\* .//title selects.)
C4_TitleExtractionTotal ==
  xml_out # Unset
    => /\ xml_out # None /\ xml_out # EmptyStr
       /\ xml_out =
            (IF ~WellFormed(xml_in) THEN XML_PARSE_ERROR
             ELSE IF FindTitle(xml_in) = 0 THEN NO_TITLE
             ELSE IF TextRun(xml_in, FindTitle(xml_in) + 1) # <<>>
               THEN TextRun(xml_in, FindTitle(xml_in) + 1)
             ELSE NO_TITLE)

\* the two header rows, as the persisted file format names them
Header4 == <<<<"type">>, <<"sender">>, <<"content">>, <<"extra">>>>
Header5 == <<<<"type">>, <<"sender">>, <<"title">>, <<"content">>, <<"extra">>>>
IsHeaderRow(r) == r \in {Header4, Header5}

DataRowsOf(rows) == SelectSeq(rows, LAMBDA r : ~IsHeaderRow(r))
AppendsTo(f) == SelectSeq(history, LAMBDA a : a.file = f)
BagOfSeq(q) ==
  [x \in {q[i] : i \in DOMAIN q} |-> Cardinality({i \in DOMAIN q : q[i] = x})]
IsPrefix(a, b) == Len(a) <= Len(b) /\ SubSeq(b, 1, Len(a)) = a

\* C5: a file that received N appends holds one header row followed by N data
\* rows, however the appends were produced.  (Stated for the append mode.)
C5_OneHeaderThenRows ==
  config.file_write_mode = "a"
    => \A f \in DOMAIN files :
         LET n == Len(AppendsTo(f)) IN
           n >= 1 => /\ Len(files[f]) = n + 1
                     /\ IsHeaderRow(files[f][1])
                     /\ \A k \in 2..(n + 1) : ~IsHeaderRow(files[f][k])

\* two handlers that held the same file open at the same time and have both
\* closed it
ClosedTogether(h, g) ==
  /\ h # g
  /\ shared[h] /\ shared[g]
  /\ file_name[h] # <<>> /\ file_name[h] = file_name[g]
  /\ pc[h] \in {"saved", "done"} /\ pc[g] \in {"saved", "done"}
  /\ exc[h] = "" /\ exc[g] = ""

\* the data rows of f are, as a bag, the rows of the appends made to f
RowsIntact(f) ==
  BagOfSeq(DataRowsOf(files[f]))
    = BagOfSeq([i \in DOMAIN AppendsTo(f) |-> AppendsTo(f)[i].data])

\* C6 as stated: after two handlers appended concurrently to one file, every
\* data row of the file is the whole row of one message and both rows are
\* there.
C6_NoMixedRows ==
  \A h, g \in Handlers :
    ClosedTogether(h, g)
      => /\ RowsIntact(file_name[h])
         /\ \E i, j \in DOMAIN files[file_name[h]] :
              /\ i # j
              /\ files[file_name[h]][i] = data[h]
              /\ files[file_name[h]][j] = data[g]

\* C6 amended: the same, when the configured file write mode is the append
\* mode "a".
C6_NoMixedRowsAppendMode ==
  config.file_write_mode = "a" => C6_NoMixedRows

\* C6 witness: in append mode two handlers with different rows opened the
\* same empty file together and both closed it
C6_Witness ==
  /\ config.file_write_mode = "a"
  /\ \E h, g \in Handlers :
       ClosedTogether(h, g) /\ data[h] # data[g] /\ pos[h] = 0 /\ pos[g] = 0

\* C7: a storage error while handling an eligible message is answered with a
\* server error carrying the reason, and the acknowledgement is given only
\* for a skipped message or a fully persisted row.
C7_StorageFailureIsServerError ==
  \A h \in Handlers :
    pc[h] = "done"
      => /\ exc[h] # "" => resp[h] = ServerError(exc[h])
         /\ resp[h] = Ack
              => \/ Ineligible(message[h])
                 \/ \E a \in Appends :
                      a.file = file_name[h] /\ a.data = data[h] /\ a.msg = message[h]

\* C8 as stated: under every configuration each step leaves every file's
\* content a prefix of its new content.
C8_AppendOnlyEveryMode ==
  [][\A f \in DOMAIN files :
       f \in DOMAIN files' /\ IsPrefix(files[f], files'[f])]_vars

\* C8 amended: files are append-only when the configured file write mode is
\* the append mode "a" (the default).
C8_AppendOnlyAppendMode ==
  [][config.file_write_mode = "a"
       => \A f \in DOMAIN files :
            f \in DOMAIN files' /\ IsPrefix(files[f], files'[f])]_vars

\* C8 witness: in append mode a file has received a second append
\* (a later open found rows and kept them)
C8_Witness ==
  /\ config.file_write_mode = "a"
  /\ \E f \in DOMAIN files : Len(AppendsTo(f)) >= 2 /\ Len(files[f]) >= 3

\* C9: the one sample current_time determines both path segments, the path is
\* ./{room_name}/{YYYYMMDD}/messages_{YYYYMMDD}{HH}.csv, and two rows went to
\* the same file exactly when room name, day and hour of their samples agree.
C9_OneSampleOnePath ==
  /\ \A h \in Handlers :
       file_name[h] # <<>>
         => LET t == current_time[h]
                d == Pad(t.year, 4) \o Pad(t.month, 2) \o Pad(t.day, 2) IN
              /\ Len(file_name[h]) = 4
              /\ PathStr(file_name[h])
                   = "./" \o room_name[h] \o "/" \o d \o "/"
                       \o "messages_" \o d \o Pad(t.hour, 2) \o ".csv"
  /\ \A a, b \in Appends :
       a.file = b.file <=> (a.room = b.room /\ a.time = b.time)

\* C9 witness: a day boundary passed while a handler was running, and an
\* earlier row of the same room went to another file
C9_Witness ==
  \E h \in Handlers :
    /\ pc[h] = "close"
    /\ current_time[h].day # now.day
    /\ \E a \in Appends : a.room = room_name[h] /\ a.file # file_name[h]

\* C10: no handler fails because its directory already exists, and a handler
\* past the ensure step has its directory (and the ancestors).
C10_EnsureDirTolerant ==
  \A h \in Handlers :
    /\ ~(exc[h] = "FileExistsError" /\ file_name[h] = <<>>)
    /\ file_name[h] # <<>>
         => /\ ParentDir(file_name[h]) \in dirs
            /\ <<".", room_name[h]>> \in dirs

\* C10 witness: two handlers in flight target the same directory, both past
\* the ensure step
C10_Witness ==
  \E h, g \in Handlers :
    /\ h # g
    /\ pc[h] \in {"open", "write", "close"} /\ pc[g] \in {"open", "write", "close"}
    /\ ParentDir(file_name[h]) = ParentDir(file_name[g])

\* the steps of handler h between the arrival of its request and its return
HandlerStep(h) ==
  Resolve(h) \/ Open(h) \/ WriteRows(h) \/ Close(h) \/ Finish(h) \/ Return(h)

\* C11: every invocation of msg_cb ends with a response.  A handler in flight
\* is never stuck (it can step, or the handler holding the event loop can),
\* it answers only at its end, and its answer is the acknowledgement or a
\* server error with a reason, whatever was raised on the way.
C11_AlwaysResponds ==
  \A h \in Handlers :
    /\ pc[h] = "done"
         => \/ resp[h] = Ack
            \/ resp[h].code = 500 /\ resp[h].detail # ""
    /\ pc[h] \notin {"idle", "done"} => resp[h] = NoResponse
    /\ pc[h] # "idle"
         => \/ ENABLED HandlerStep(h)
            \/ \E g \in Handlers \ {h} : pc[g] = "resolve" /\ ENABLED Resolve(g)

\* C11 witness: a storage error was raised, the error handler's own logging
\* raised too, and the request was still answered (with a server error)
C11_Witness ==
  \E h \in Handlers :
    /\ pc[h] = "done"
    /\ exc[h] = "OSError"
    /\ log_and_print_raises(config)
    /\ resp[h].code = 500

\* C12: in every file a header row occurs only as the first row, also when
\* concurrently running handlers opened the same empty file.
C12_HeaderOnlyFirst ==
  \A f \in DOMAIN files :
    \A k \in DOMAIN files[f] : IsHeaderRow(files[f][k]) => k = 1

\* C13: the acknowledgement of a persisted message comes after its row was
\* written and the file closed: an answered handler's row has been flushed
\* (in append mode it is in the file), and a handler that left write_to_csv
\* holds nothing buffered, so nothing of an answered message is still
\* buffered when a later message's handler writes.
C13_WriteBeforeResponse ==
  \A h \in Handlers :
    /\ (pc[h] = "done" /\ resp[h] = Ack /\ ~Ineligible(message[h]) /\ exc[h] = "")
         => /\ \E a \in Appends :
                 /\ a.msg = message[h] /\ a.file = file_name[h]
                 /\ a.rows[Len(a.rows)] = data[h]
            /\ config.file_write_mode = "a"
                 => \E k \in DOMAIN files[file_name[h]] :
                      files[file_name[h]][k] = data[h]
    /\ pc[h] \in {"saved", "done", "idle"} => buf[h] = <<>>

\* C13 witness: a persisted message has been acknowledged and the handler of
\* a later message, which opened the file after that row was in it, has
\* written and is about to close
C13_Witness ==
  \E h, g \in Handlers :
    /\ pc[h] = "done" /\ resp[h] = Ack /\ exc[h] = "" /\ file_name[h] # <<>>
    /\ pc[g] = "close" /\ file_name[g] = file_name[h]
    /\ ~shared[g] /\ pos[g] >= 2

\* C14: a message whose row has been appended to its target file is answered
\* with the success acknowledgement, whatever the configured log level: the
\* logging that follows the write cannot turn it into an error response.
C14_LoggingCannotFail ==
  \A h \in Handlers :
    ( /\ pc[h] = "done"
      /\ exc[h] = ""
      /\ \E a \in Appends :
           /\ a.msg = message[h] /\ a.file = file_name[h]
           /\ a.rows[Len(a.rows)] = data[h] )
      => resp[h] = Ack

\* C15: in every file that starts with a header row, every data row has as
\* many fields as that header row.
C15_RowsMatchHeader ==
  \A f \in DOMAIN files :
    (files[f] # <<>> /\ IsHeaderRow(files[f][1]))
      => \A k \in DOMAIN files[f] :
           ~IsHeaderRow(files[f][k]) => Len(files[f][k]) = Len(files[f][1])

\* the target file of the message handler h is handling: room name, day and
\* hour of its one time sample
TargetOf(h) ==
  <<".", config.chatroom_id_to_name[message[h].roomid],
    strftime_Ymd(current_time[h]),
    "messages_" \o strftime_YmdH(current_time[h]) \o ".csv">>

\* C16: a step changes or creates no file other than the target file of a
\* message whose handler takes the step, removes no file, and leaves the
\* configuration unchanged.
C16_OnlyOwnFile ==
  [][ /\ config' = config
      /\ DOMAIN files \subseteq DOMAIN files'
      /\ \A f \in DOMAIN files' :
           (f \notin DOMAIN files \/ files'[f] # files[f])
             => \E h \in Handlers :
                  /\ pc'[h] # pc[h]
                  /\ pc[h] # "idle"
                  /\ ~Ineligible(message[h])
                  /\ f = TargetOf(h) ]_vars

\* C16 witness: two handlers of messages for different rooms are in flight
\* together, one has written its own file and the other has its file open
C16_Witness ==
  \E h, g \in Handlers :
    /\ pc[h] \in {"saved", "done"} /\ exc[h] = ""
    /\ pc[g] = "close"
    /\ file_name[h] # <<>> /\ file_name[g] # <<>>
    /\ message[h].roomid # message[g].roomid
    /\ file_name[h] \in DOMAIN files /\ files[file_name[h]] # <<>>

====
